---- MODULE Spec2Model ----
(***************************************************************************)
(* Model of the Materials Research Aggregator                              *)
(* (materials_aggregator.py, env_loader.py).                               *)
(*                                                                         *)
(* A field name is the sequence of its dot-free segments, so that          *)
(* "elasticity.K_VRH" is <<"elasticity", "K_VRH">>;  `"." in prop` is      *)
(* Len(prop) > 1 and prop.split(".", 1) is <<Head, Tail>>.                 *)
(* A Python value is a tagged record, a Python dict keeps its insertion    *)
(* order, and a pandas DataFrame is a column list plus a list of rows.     *)
(***************************************************************************)
EXTENDS Integers, Sequences, FiniteSets, TLC

VARIABLES
    op,              \* the operation that is invoked
    command,         \* "none" when the method is called directly, else main()'s sub-command
    properties,      \* the `properties` argument: [none |-> TRUE] is Python's None
    num_results,     \* the `num_results` argument of search_materials
    responses,       \* what the query client answers to the successive calls
    client_records,  \* the record objects the client handed over, as they are now
    pc,              \* "called", "returned", "raised", "displayed"
    df,              \* the DataFrame the operation returned
    err,             \* the exception that left the operation ("none" if none)
    summary,         \* return value of display_material_summary
    environ,         \* os.environ.get('MATERIALS_PROJECT_API_KEY'), "unset" if absent
    cwd_env,         \* ./.env : "nofile", "nokey" or the value it gives the key
    home_env,        \* ~/.env : "nofile", "nokey" or the value it gives the key
    api_key_arg,     \* the api_key argument of __init__ ("None" for None)
    env_pc,          \* "start", "loaded", "constructed", "init_failed"
    loaded,          \* return value of load_environment ("unset" before the call)
    mpr_key          \* the key MPRester was constructed with ("unset" if none)

vars == <<op, command, properties, num_results, responses, client_records, pc,
          df, err, summary, environ, cwd_env, home_env, api_key_arg, env_pc,
          loaded, mpr_key>>

normVars == <<op, command, properties, num_results, responses, client_records,
              pc, df, err, summary>>
envVars == <<environ, cwd_env, home_env, api_key_arg, env_pc, loaded, mpr_key>>

(***************************************************************************)
(* Bounds                                                                  *)
(***************************************************************************)
MaxRecords == 2

(***************************************************************************)
(* Field names                                                             *)
(***************************************************************************)
MATERIAL_ID == <<"material_id">>
FORMULA == <<"formula">>
FORMULA_PRETTY == <<"formula_pretty">>
FORMATION_ENERGY == <<"formation_energy_per_atom">>
ENERGY_ABOVE_HULL == <<"energy_above_hull">>
BAND_GAP == <<"band_gap">>
DENSITY == <<"density">>
BULK_MODULUS == <<"bulk_modulus">>
SHEAR_MODULUS == <<"shear_modulus">>
TOTAL_MAGNETIZATION == <<"total_magnetization">>
E_ELECTRONIC == <<"e_electronic">>
ORDERING == <<"ordering">>
ELASTICITY == <<"elasticity">>
ELASTICITY_K_VRH == <<"elasticity", "K_VRH">>
ELASTICITY_G_VRH == <<"elasticity", "G_VRH">>
SPACEGROUP == <<"spacegroup">>
SPACEGROUP_SYMBOL == <<"spacegroup", "symbol">>
SYMMETRY == <<"symmetry">>
SYMBOL == <<"symbol">>
K_VRH == <<"K_VRH">>
G_VRH == <<"G_VRH">>

HasDot(prop) == Len(prop) > 1
Base(prop) == <<prop[1]>>
Nested(prop) == Tail(prop)

Range(s) == {s[i] : i \in 1..Len(s)}

(***************************************************************************)
(* Python values                                                           *)
(***************************************************************************)
None == [t |-> "none", n |-> 0, d |-> {}]
NaN == [t |-> "nan", n |-> 0, d |-> {}]
Num(k) == [t |-> "num", n |-> k, d |-> {}]
Dict(pairs) == [t |-> "dict", n |-> 0, d |-> pairs]
Absent == [t |-> "absent", n |-> 0, d |-> {}]

IsDict(x) == x.t = "dict"
IsNull(x) == x.t \in {"none", "nan"}

\* bool(x): None, 0 and {} are falsy; nan is truthy
Truthy(x) ==
    CASE x.t = "none" -> FALSE
      [] x.t = "nan" -> TRUE
      [] x.t = "num" -> x.n # 0
      [] x.t = "dict" -> x.d # {}
      [] OTHER -> FALSE

\* x.get(key) on a nested dict
DictGet(x, key) ==
    IF \E p \in x.d : p[1] = key
    THEN Num((CHOOSE p \in x.d : p[1] = key)[2])
    ELSE None

(***************************************************************************)
(* Python dicts (insertion ordered)                                        *)
(***************************************************************************)
EmptyDict == [keys |-> <<>>, val |-> <<>>]

HasKey(rec, k) == k \in DOMAIN rec.val

\* rec.get(k)
RecGet(rec, k) == IF HasKey(rec, k) THEN rec.val[k] ELSE None

\* rec[k] = v
DictSet(rec, k, v) ==
    [keys |-> IF HasKey(rec, k) THEN rec.keys ELSE Append(rec.keys, k),
     val |-> [x \in (DOMAIN rec.val) \cup {k} |-> IF x = k THEN v ELSE rec.val[x]]]

\* The order in which the client emits the keys of a record
KeyOrder == <<MATERIAL_ID, FORMULA_PRETTY, FORMATION_ENERGY, ENERGY_ABOVE_HULL,
              BAND_GAP, BULK_MODULUS, ELASTICITY, ELASTICITY_K_VRH, SPACEGROUP,
              SPACEGROUP_SYMBOL, SYMMETRY>>

MkDict(assign) ==
    LET present == {k \in DOMAIN assign : assign[k] # Absent}
    IN [keys |-> SelectSeq(KeyOrder, LAMBDA k : k \in present),
        val |-> [k \in present |-> assign[k]]]

(***************************************************************************)
(* pandas.DataFrame                                                        *)
(***************************************************************************)
RECURSIVE AppendNew(_, _)
AppendNew(cols, ks) ==
    IF ks = <<>> THEN cols
    ELSE AppendNew(IF Head(ks) \in Range(cols) THEN cols ELSE Append(cols, Head(ks)),
                   Tail(ks))

\* the columns of DataFrame(data): the keys of the dicts, in order of first appearance
RECURSIVE UnionKeys(_, _)
UnionKeys(data, cols) ==
    IF data = <<>> THEN cols
    ELSE UnionKeys(Tail(data), AppendNew(cols, Head(data).keys))

\* dtype inference: a column of numbers stores a missing value or a None as nan
InferDtype(series) ==
    IF /\ \E i \in 1..Len(series) : series[i].t = "num"
       /\ \A i \in 1..Len(series) : series[i].t \in {"num", "none", "nan"}
    THEN [i \in 1..Len(series) |-> IF series[i].t = "none" THEN NaN ELSE series[i]]
    ELSE series

EmptyDataFrame == [columns |-> <<>>, rows |-> <<>>]

\* pd.DataFrame(data) for a list of dicts
DataFrame(data) ==
    LET cols == UnionKeys(data, <<>>)
        raw(c) == [i \in 1..Len(data) |->
                      IF HasKey(data[i], c) THEN data[i].val[c] ELSE NaN]
    IN [columns |-> cols,
        rows |-> [i \in 1..Len(data) |-> [c \in Range(cols) |-> InferDtype(raw(c))[i]]]]

\* df[c]
Column(frame, c) == [i \in 1..Len(frame.rows) |-> frame.rows[i][c]]

\* df[c] = series
SetColumn(frame, c, series) ==
    LET cols == IF c \in Range(frame.columns) THEN frame.columns
                ELSE Append(frame.columns, c)
        vals == InferDtype(series)
    IN [columns |-> cols,
        rows |-> [i \in 1..Len(frame.rows) |->
                     [x \in Range(cols) |-> IF x = c THEN vals[i] ELSE frame.rows[i][x]]]]

\* df[[c1, c2, ...]] raises KeyError unless every selected column exists
SelectColumns(frame, selection) ==
    IF Range(selection) \subseteq Range(frame.columns)
    THEN [err |-> "none",
          df |-> [columns |-> selection,
                  rows |-> [i \in 1..Len(frame.rows) |->
                               [x \in Range(selection) |-> frame.rows[i][x]]]]]
    ELSE [err |-> "KeyError", df |-> EmptyDataFrame]

\* series.apply(lambda x: x.get(key) if x else None)
ApplyGet(series, key) ==
    IF \E i \in 1..Len(series) : Truthy(series[i]) /\ ~IsDict(series[i])
    THEN [err |-> "AttributeError", series |-> <<>>]
    ELSE [err |-> "none",
          series |-> [i \in 1..Len(series) |->
                         IF Truthy(series[i]) THEN DictGet(series[i], key) ELSE None]]

(***************************************************************************)
(* The query client: each call is answered by a failure or a list of       *)
(* records.                                                                *)
(***************************************************************************)
Fail == [kind |-> "fail", recs |-> <<>>]
Ok(recs) == [kind |-> "ok", recs |-> recs]

(***************************************************************************)
(* compare_materials                                                       *)
(***************************************************************************)
CompareDefaults ==
    <<MATERIAL_ID, FORMULA, FORMATION_ENERGY, ENERGY_ABOVE_HULL, BAND_GAP,
      DENSITY, ELASTICITY_K_VRH, ELASTICITY_G_VRH>>

\* HandleNested with an alias lookup: a flat bulk_modulus fills elasticity.K_VRH
RECURSIVE HandleNested_Alias(_, _)
HandleNested_Alias(material_data, props) ==
    IF props = <<>> THEN material_data
    ELSE LET prop == Head(props)
             next == IF prop = ELASTICITY_K_VRH /\ HasKey(material_data, BULK_MODULUS)
                     THEN DictSet(material_data, prop, material_data.val[BULK_MODULUS])
                     ELSE IF /\ HasDot(prop)
                             /\ HasKey(material_data, Base(prop))
                             /\ IsDict(material_data.val[Base(prop)])
                     THEN DictSet(material_data, prop,
                                  DictGet(material_data.val[Base(prop)], Nested(prop)))
                     ELSE material_data
         IN HandleNested_Alias(next, Tail(props))

\* HandleNested without the isinstance test: a dotted field is always written
RECURSIVE HandleNested_AlwaysSet(_, _)
HandleNested_AlwaysSet(material_data, props) ==
    IF props = <<>> THEN material_data
    ELSE LET prop == Head(props)
             next == IF HasDot(prop)
                     THEN DictSet(material_data, prop,
                                  IF /\ HasKey(material_data, Base(prop))
                                     /\ IsDict(material_data.val[Base(prop)])
                                  THEN DictGet(material_data.val[Base(prop)], Nested(prop))
                                  ELSE None)
                     ELSE material_data
         IN HandleNested_AlwaysSet(next, Tail(props))

\* the inner loop: for prop in properties
RECURSIVE HandleNested(_, _)
HandleNested(material_data, props) ==
    IF props = <<>> THEN material_data
    ELSE LET prop == Head(props)
             next == IF /\ HasDot(prop)
                        /\ HasKey(material_data, Base(prop))
                        /\ IsDict(material_data.val[Base(prop)])
                     THEN DictSet(material_data, prop,
                                  DictGet(material_data.val[Base(prop)], Nested(prop)))
                     ELSE material_data
         IN HandleNested(next, Tail(props))

\* CompareLoop with the failed query swallowed: the material is skipped
RECURSIVE CompareLoop_Skip(_, _, _, _, _)
CompareLoop_Skip(resp, props, i, data, objs) ==
    IF i > Len(resp) THEN [err |-> "none", data |-> data, objs |-> objs]
    ELSE IF resp[i].kind = "fail"
         THEN CompareLoop_Skip(resp, props, i + 1, data, objs)
    ELSE IF resp[i].recs = <<>>
         THEN [err |-> "IndexError", data |-> data, objs |-> objs]
    ELSE LET material_data == HandleNested(resp[i].recs[1], props)
         IN CompareLoop_Skip(resp, props, i + 1, Append(data, material_data),
                             [objs EXCEPT ![i] = [objs[i] EXCEPT ![1] = material_data]])

\* the outer loop: for mid in material_ids, from the i-th id on
RECURSIVE CompareLoop(_, _, _, _, _)
CompareLoop(resp, props, i, data, objs) ==
    IF i > Len(resp) THEN [err |-> "none", data |-> data, objs |-> objs]
    ELSE IF resp[i].kind = "fail"
         THEN [err |-> "RemoteFailure", data |-> data, objs |-> objs]
    ELSE IF resp[i].recs = <<>>
         THEN [err |-> "IndexError", data |-> data, objs |-> objs]
    ELSE LET material_data == HandleNested(resp[i].recs[1], props)
         IN CompareLoop(resp, props, i + 1, Append(data, material_data),
                        [objs EXCEPT ![i] = [objs[i] EXCEPT ![1] = material_data]])

\* compare_materials with a guard that rejects an empty property list
compare_materials_Rejecting(resp, props, objs) ==
    IF ~props.none /\ props.list = <<>>
    THEN [err |-> "InvalidArgument", df |-> EmptyDataFrame, objs |-> objs]
    ELSE LET p == IF props.none THEN CompareDefaults ELSE props.list
             r == CompareLoop(resp, p, 1, <<>>, objs)
         IN [err |-> r.err,
             df |-> IF r.err = "none" THEN DataFrame(r.data) ELSE EmptyDataFrame,
             objs |-> r.objs]

compare_materials(resp, props, objs) ==
    LET p == IF props.none THEN CompareDefaults ELSE props.list
        r == CompareLoop(resp, p, 1, <<>>, objs)
    IN [err |-> r.err,
        df |-> IF r.err = "none" THEN DataFrame(r.data) ELSE EmptyDataFrame,
        objs |-> r.objs]

(***************************************************************************)
(* find_stable_materials                                                   *)
(***************************************************************************)
StableProperties ==
    <<MATERIAL_ID, FORMULA, FORMATION_ENERGY, ENERGY_ABOVE_HULL, BAND_GAP,
      DENSITY, ELASTICITY_K_VRH, SPACEGROUP_SYMBOL>>

\* lines 221-222
HandleSpacegroup(frame) ==
    IF SPACEGROUP_SYMBOL \in Range(frame.columns)
    THEN IF SPACEGROUP \notin Range(frame.columns)
         THEN [err |-> "KeyError", df |-> frame]
         ELSE LET a == ApplyGet(Column(frame, SPACEGROUP), SYMBOL)
              IN IF a.err # "none" THEN [err |-> a.err, df |-> frame]
                 ELSE [err |-> "none", df |-> SetColumn(frame, SPACEGROUP, a.series)]
    ELSE [err |-> "none", df |-> frame]

\* lines 224-228: for col in df.columns, from the i-th column on
RECURSIVE HandleColumns(_, _, _)
HandleColumns(frame, cols, i) ==
    IF i > Len(cols) THEN [err |-> "none", df |-> frame]
    ELSE LET col == cols[i]
         IN IF /\ HasDot(col)
               /\ Base(col) \in Range(frame.columns)
               /\ IsDict(frame.rows[1][Base(col)])
            THEN LET a == ApplyGet(Column(frame, Base(col)), Nested(col))
                 IN IF a.err # "none" THEN [err |-> a.err, df |-> frame]
                    ELSE HandleColumns(SetColumn(frame, col, a.series), cols, i + 1)
            ELSE HandleColumns(frame, cols, i + 1)

find_stable_materials(resp) ==
    IF resp[1].kind = "fail" THEN [err |-> "RemoteFailure", df |-> EmptyDataFrame]
    ELSE LET s == HandleSpacegroup(DataFrame(resp[1].recs))
         IN IF s.err # "none" THEN [err |-> s.err, df |-> EmptyDataFrame]
            ELSE LET h == HandleColumns(s.df, s.df.columns, 1)
                 IN IF h.err # "none" THEN [err |-> h.err, df |-> EmptyDataFrame]
                    ELSE h

(***************************************************************************)
(* search_materials                                                        *)
(***************************************************************************)
SearchDefaults ==
    <<MATERIAL_ID, FORMULA_PRETTY, FORMATION_ENERGY, ENERGY_ABOVE_HULL, BAND_GAP,
      DENSITY, BULK_MODULUS, SHEAR_MODULUS, TOTAL_MAGNETIZATION, E_ELECTRONIC,
      ORDERING>>

DefaultNumResults == 10

\* lst[:n] for n >= 0
Slice(lst, n) == SubSeq(lst, 1, IF n < Len(lst) THEN n ELSE Len(lst))

search_materials(resp, props, n) ==
    IF resp[1].kind = "fail" THEN [err |-> "RemoteFailure", df |-> EmptyDataFrame]
    ELSE [err |-> "none", df |-> DataFrame(Slice(resp[1].recs, n))]

(***************************************************************************)
(* display_material_summary                                                *)
(***************************************************************************)
NoSummary == [returned |-> "nothing", data |-> EmptyDict, caught |-> "none"]

\* the body of the try block; every exception is caught by `except Exception`
display_material_summary(resp) ==
    IF resp[1].kind = "fail"
    THEN [returned |-> "None", data |-> EmptyDict, caught |-> "RemoteFailure"]
    ELSE IF resp[1].recs = <<>>
    THEN [returned |-> "None", data |-> EmptyDict, caught |-> "AttributeError"]
    ELSE LET material_data == resp[1].recs[1]
         IN IF /\ HasKey(material_data, SYMMETRY)
               /\ Truthy(material_data.val[SYMMETRY])
               /\ ~IsDict(material_data.val[SYMMETRY])
            THEN [returned |-> "None", data |-> EmptyDict, caught |-> "AttributeError"]
            ELSE [returned |-> "dict", data |-> material_data, caught |-> "none"]

(***************************************************************************)
(* main(): the columns the search and stable commands select for display   *)
(***************************************************************************)
DisplayColumns ==
    <<MATERIAL_ID, FORMULA_PRETTY, FORMATION_ENERGY, ENERGY_ABOVE_HULL, BAND_GAP>>

(***************************************************************************)
(* Inputs                                                                  *)
(***************************************************************************)
SeqUpTo(S, n) == UNION {[1..k -> S] : k \in 0..n}

PropsNone == [none |-> TRUE, list |-> <<>>]
Props(list) == [none |-> FALSE, list |-> list]

CompareRecords ==
    {MkDict((ELASTICITY :> e) @@ (ELASTICITY_K_VRH :> f) @@ (BULK_MODULUS :> b)) :
        e \in {Absent, None, Num(5), Dict({<<K_VRH, 120>>}), Dict({<<G_VRH, 7>>})},
        f \in {Absent, Num(3)},
        b \in {Absent, Num(150)}}

StableRecords ==
    {MkDict((ELASTICITY :> e) @@ (ELASTICITY_K_VRH :> f)
            @@ (SPACEGROUP :> s) @@ (SPACEGROUP_SYMBOL :> y)) :
        e \in {Absent, None, Num(5), Dict({<<K_VRH, 120>>})},
        f \in {Absent, Num(3)},
        s \in {Absent, Dict({<<SYMBOL, 9>>})},
        y \in {Absent, Num(9)}}

SearchRecords ==
    {MkDict((MATERIAL_ID :> m) @@ (FORMULA_PRETTY :> f) @@ (FORMATION_ENERGY :> Num(1))
            @@ (ENERGY_ABOVE_HULL :> Num(0)) @@ (BAND_GAP :> g)) :
        m \in {Absent, Num(1)},
        f \in {Absent, Num(2)},
        g \in {Absent, Num(0)}}

SummaryRecords ==
    {MkDict((FORMULA_PRETTY :> f) @@ (BULK_MODULUS :> b) @@ (SYMMETRY :> y)) :
        f \in {Absent, Num(2)},
        b \in {Absent, Num(150)},
        y \in {Absent, None, Num(5), Dict({<<SYMBOL, 9>>})}}

CompareProperties ==
    {PropsNone, Props(<<>>), Props(<<BULK_MODULUS>>), Props(<<ELASTICITY_K_VRH>>),
     Props(<<BULK_MODULUS, ELASTICITY_K_VRH>>), Props(<<ELASTICITY_K_VRH, BULK_MODULUS>>)}

SearchProperties == {PropsNone, Props(<<>>)}

NumResults == {0, 1, DefaultNumResults}

\* the records of the responses, as objects the caller holds
Objects(resp) == [i \in 1..Len(resp) |-> resp[i].recs]

EnvIdle ==
    /\ environ = "unset"
    /\ cwd_env = "nofile"
    /\ home_env = "nofile"
    /\ api_key_arg = "None"
    /\ env_pc = "idle"
    /\ loaded = "unset"
    /\ mpr_key = "unset"

InitCall ==
    /\ pc = "called"
    /\ df = EmptyDataFrame
    /\ err = "none"
    /\ summary = NoSummary
    /\ client_records = Objects(responses)

InitCompare ==
    /\ op = "compare_materials"
    /\ command \in {"none", "compare"}
    /\ properties \in CompareProperties
    /\ command = "compare" => properties = PropsNone
    /\ num_results = DefaultNumResults
    /\ responses \in SeqUpTo({Fail, Ok(<<>>)} \cup {Ok(<<r>>) : r \in CompareRecords},
                             MaxRecords)

InitStable ==
    /\ op = "find_stable_materials"
    /\ command \in {"none", "stable"}
    /\ properties = PropsNone
    /\ num_results = DefaultNumResults
    /\ responses \in {<<x>> : x \in {Fail} \cup {Ok(s) : s \in SeqUpTo(StableRecords, MaxRecords)}}

InitSearch ==
    /\ op = "search_materials"
    /\ command \in {"none", "search"}
    /\ properties \in SearchProperties
    /\ command = "search" => properties = PropsNone
    /\ num_results \in NumResults
    /\ responses \in {<<x>> : x \in {Fail} \cup {Ok(s) : s \in SeqUpTo(SearchRecords, MaxRecords)}}

InitSummary ==
    /\ op = "display_material_summary"
    /\ command \in {"none", "summary"}
    /\ properties = PropsNone
    /\ num_results = DefaultNumResults
    /\ responses \in {<<x>> : x \in {Fail, Ok(<<>>)} \cup {Ok(<<r>>) : r \in SummaryRecords}}

Init ==
    /\ InitStable \/ InitSearch \/ InitSummary \/ InitCompare
    /\ InitCall
    /\ EnvIdle

(***************************************************************************)
(* Actions                                                                 *)
(***************************************************************************)
Finish(r) ==
    /\ err' = r.err
    /\ df' = r.df
    /\ pc' = IF r.err = "none" THEN "returned" ELSE "raised"

CompareMaterials ==
    /\ pc = "called"
    /\ op = "compare_materials"
    /\ LET r == compare_materials(responses, properties, client_records)
       IN Finish(r) /\ client_records' = r.objs
    /\ UNCHANGED <<op, command, properties, num_results, responses, summary>>
    /\ UNCHANGED envVars

FindStableMaterials ==
    /\ pc = "called"
    /\ op = "find_stable_materials"
    /\ Finish(find_stable_materials(responses))
    /\ UNCHANGED <<op, command, properties, num_results, responses, client_records, summary>>
    /\ UNCHANGED envVars

SearchMaterials ==
    /\ pc = "called"
    /\ op = "search_materials"
    /\ Finish(search_materials(responses, properties, num_results))
    /\ UNCHANGED <<op, command, properties, num_results, responses, client_records, summary>>
    /\ UNCHANGED envVars

DisplayMaterialSummary ==
    /\ pc = "called"
    /\ op = "display_material_summary"
    /\ summary' = display_material_summary(responses)
    /\ pc' = "returned"
    /\ UNCHANGED <<op, command, properties, num_results, responses, client_records, df, err>>
    /\ UNCHANGED envVars

\* main(), search and stable commands: tabulate(df[[...]])
MainDisplaySelected ==
    /\ pc = "returned"
    /\ command \in {"search", "stable"}
    /\ LET s == SelectColumns(df, DisplayColumns)
       IN /\ err' = s.err
          /\ pc' = IF s.err = "none" THEN "displayed" ELSE "raised"
    /\ UNCHANGED <<op, command, properties, num_results, responses, client_records, df, summary>>
    /\ UNCHANGED envVars

\* main(), compare command: tabulate(df)
MainDisplayCompare ==
    /\ pc = "returned"
    /\ command = "compare"
    /\ pc' = "displayed"
    /\ UNCHANGED <<op, command, properties, num_results, responses, client_records, df, err, summary>>
    /\ UNCHANGED envVars

Next ==
    \/ CompareMaterials
    \/ FindStableMaterials
    \/ SearchMaterials
    \/ DisplayMaterialSummary
    \/ MainDisplaySelected
    \/ MainDisplayCompare

Spec == Init /\ [][Next]_vars

(***************************************************************************)
(* env_loader.load_environment and MaterialsResearchAggregator.__init__    *)
(***************************************************************************)
\* value.strip("'").strip('"') on the values a .env file holds here
StripQuotes(v) == IF v = "'B'" THEN "B" ELSE v

DefinesKey(file) == file \notin {"nofile", "nokey"}

\* load_dotenv(path): sets the key from the file unless the environment has it
load_dotenv(env, file) ==
    IF env = "unset" /\ DefinesKey(file) THEN StripQuotes(file) ELSE env

load_environment(env, cwd, home) ==
    IF cwd # "nofile" THEN [environ |-> load_dotenv(env, cwd), ret |-> "True"]
    ELSE IF home # "nofile" THEN [environ |-> load_dotenv(env, home), ret |-> "True"]
    ELSE IF env # "unset" THEN [environ |-> env, ret |-> "True"]
    ELSE [environ |-> env, ret |-> "False"]

\* __init__: the key handed to MPRester, "unset" when ValueError is raised
ResolveApiKey(arg, env, cwd) ==
    IF arg # "None" THEN arg
    ELSE IF env # "unset" THEN env
    ELSE IF DefinesKey(cwd) THEN StripQuotes(cwd)
    ELSE "unset"

NormIdle ==
    /\ op = "none"
    /\ command = "none"
    /\ properties = PropsNone
    /\ num_results = DefaultNumResults
    /\ responses = <<>>
    /\ client_records = <<>>
    /\ pc = "idle"
    /\ df = EmptyDataFrame
    /\ err = "none"
    /\ summary = NoSummary

InitEnv ==
    /\ NormIdle
    /\ environ \in {"unset", "E", "A"}
    /\ cwd_env \in {"nofile", "nokey", "A", "'B'"}
    /\ home_env \in {"nofile", "nokey", "A", "C"}
    /\ api_key_arg \in {"None", "P"}
    /\ env_pc = "start"
    /\ loaded = "unset"
    /\ mpr_key = "unset"

LoadEnvironment ==
    /\ env_pc = "start"
    /\ LET r == load_environment(environ, cwd_env, home_env)
       IN /\ environ' = r.environ
          /\ loaded' = r.ret
    /\ env_pc' = "loaded"
    /\ UNCHANGED <<cwd_env, home_env, api_key_arg, mpr_key>>
    /\ UNCHANGED normVars

AggregatorInit ==
    /\ env_pc \in {"start", "loaded"}
    /\ LET k == ResolveApiKey(api_key_arg, environ, cwd_env)
       IN /\ mpr_key' = k
          /\ env_pc' = IF k = "unset" THEN "init_failed" ELSE "constructed"
    /\ UNCHANGED <<environ, cwd_env, home_env, api_key_arg, loaded>>
    /\ UNCHANGED normVars

NextEnv ==
    \/ LoadEnvironment
    \/ AggregatorInit

SpecEnv == InitEnv /\ [][NextEnv]_vars

(***************************************************************************)
(* Vocabulary of the properties                                            *)
(***************************************************************************)
Direct == command = "none"
Finished == pc \in {"returned", "raised"}

\* every query of the call was answered, and answered with a record where one is indexed
ClientOk ==
    IF op = "compare_materials"
    THEN \A i \in 1..Len(responses) : responses[i].kind = "ok" /\ responses[i].recs # <<>>
    ELSE Len(responses) = 1 /\ responses[1].kind = "ok"

\* some query of the call fails, and the call gets as far as that query
ClientFails ==
    IF op = "compare_materials"
    THEN \E i \in 1..Len(responses) :
            /\ responses[i].kind = "fail"
            /\ \A j \in 1..(i - 1) : responses[j].kind = "ok" /\ responses[j].recs # <<>>
    ELSE Len(responses) = 1 /\ responses[1].kind = "fail"

\* compare_materials got as far as the i-th query and it returned a record
Fetched(i) ==
    \A j \in 1..i : responses[j].kind = "ok" /\ responses[j].recs # <<>>

\* the raw records of the call, as the client returned them
RawRecords ==
    IF op = "compare_materials"
    THEN [i \in 1..Len(responses) |-> responses[i].recs[1]]
    ELSE responses[1].recs

\* the requested field list of the call
Requested ==
    CASE op = "compare_materials" ->
            IF properties.none THEN CompareDefaults ELSE properties.list
      [] op = "find_stable_materials" -> StableProperties
      [] op = "search_materials" ->
            IF properties.none THEN SearchDefaults ELSE properties.list
      [] OTHER -> <<>>

BaseIsMapping(rec, f) == HasKey(rec, Base(f)) /\ IsDict(rec.val[Base(f)])

HasColumn(f) == f \in Range(df.columns)

\* the value the table holds for record i and field f; a missing column holds nothing
OutValue(i, f) == IF HasColumn(f) THEN df.rows[i][f] ELSE None

SameValue(a, b) == a = b \/ (IsNull(a) /\ IsNull(b))

\* the AliasTable of the specification
AliasTable == (ELASTICITY_K_VRH :> BULK_MODULUS) @@ (ELASTICITY_G_VRH :> SHEAR_MODULUS)

(***************************************************************************)
(* C1                                                                      *)
(***************************************************************************)
\* C1: dotted field resolution never raises: in compare_materials and
\* find_stable_materials, for every record and every requested field
\* base.nested whose base is absent or not a mapping, the call completes
\* without a failure and the output value of the field is null.  (A record
\* that holds the dotted name itself as a flat key is left out of the value
\* part: the failure is what is at stake.)
C1_DottedNeverRaises ==
    (Direct /\ Finished /\ op \in {"compare_materials", "find_stable_materials"} /\ ClientOk)
    => /\ err = "none"
       /\ \A i \in 1..Len(RawRecords) : \A f \in Range(Requested) :
             (HasDot(f) /\ ~BaseIsMapping(RawRecords[i], f) /\ ~HasKey(RawRecords[i], f))
             => IsNull(OutValue(i, f))

(***************************************************************************)
(* C2                                                                      *)
(***************************************************************************)
\* C2: for a non-empty requested field list every row of the output table
\* has exactly the requested fields as its columns, in the requested order,
\* whatever fields the records hold.
C2_ColumnsAreRequested ==
    (Direct /\ pc = "returned" /\ op \in {"compare_materials", "find_stable_materials"}
       /\ Requested # <<>>)
    => \A i \in 1..Len(df.rows) :
          /\ df.columns = Requested
          /\ DOMAIN df.rows[i] = Range(Requested)

(***************************************************************************)
(* C3                                                                      *)
(***************************************************************************)
\* C3 (as stated): a requested field with an AliasTable entry takes the
\* record's value at the alias target when that flat key is present, and
\* the dotted resolution otherwise, under the requested column name.
C3_AliasPrecedence ==
    (Direct /\ pc = "returned" /\ op = "compare_materials")
    => \A i \in 1..Len(RawRecords) : \A f \in Range(Requested) \cap DOMAIN AliasTable :
          LET rec == RawRecords[i]
          IN IF HasKey(rec, AliasTable[f])
             THEN HasColumn(f) /\ SameValue(df.rows[i][f], rec.val[AliasTable[f]])
             ELSE BaseIsMapping(rec, f)
                  => /\ HasColumn(f)
                     /\ SameValue(df.rows[i][f], DictGet(rec.val[Base(f)], Nested(f)))

\* C3 (amended): compare_materials consults no alias. A requested dotted
\* field takes record[base].get(nested) when record[base] is a mapping, under
\* the dotted column name; otherwise the record contributes to that column
\* only what it holds under the dotted key itself, and the value under the
\* alias target stays in the alias target's own column.
C3_NoAliasLookup ==
    (Direct /\ pc = "returned" /\ op = "compare_materials")
    => \A i \in 1..Len(RawRecords) : \A f \in Range(Requested) :
          LET rec == RawRecords[i]
          IN HasDot(f) =>
             /\ BaseIsMapping(rec, f)
                => /\ HasColumn(f)
                   /\ SameValue(df.rows[i][f], DictGet(rec.val[Base(f)], Nested(f)))
             /\ (~BaseIsMapping(rec, f) /\ HasKey(rec, f))
                => HasColumn(f) /\ SameValue(df.rows[i][f], rec.val[f])
             /\ (~BaseIsMapping(rec, f) /\ ~HasKey(rec, f))
                => (HasColumn(f) => df.rows[i][f] = NaN)
             /\ (f \in DOMAIN AliasTable /\ HasKey(rec, AliasTable[f]))
                => /\ HasColumn(AliasTable[f])
                   /\ SameValue(df.rows[i][AliasTable[f]], rec.val[AliasTable[f]])

\* the alias case happened: a record holds the alias target and no mapping
\* at the base, the dotted field was requested, and the table returned
\* without a column for it
C3_Witness ==
    /\ Direct /\ pc = "returned" /\ op = "compare_materials"
    /\ ELASTICITY_K_VRH \in Range(Requested)
    /\ Len(RawRecords) >= 1
    /\ HasKey(RawRecords[1], BULK_MODULUS)
    /\ ~HasKey(RawRecords[1], ELASTICITY)
    /\ ~HasColumn(ELASTICITY_K_VRH)
    /\ df.rows[1][BULK_MODULUS] = Num(150)

(***************************************************************************)
(* C4                                                                      *)
(***************************************************************************)
\* C4: for every record whose base maps to a mapping, requesting
\* base.nested produces a column named base.nested holding
\* record[base][nested], or null if the mapping lacks nested.
C4_DottedValue ==
    (Direct /\ Finished /\ op \in {"compare_materials", "find_stable_materials"} /\ ClientOk)
    => \A i \in 1..Len(RawRecords) : \A f \in Range(Requested) :
          (HasDot(f) /\ BaseIsMapping(RawRecords[i], f))
          => /\ err = "none"
             /\ HasColumn(f)
             /\ SameValue(df.rows[i][f], DictGet(RawRecords[i].val[Base(f)], Nested(f)))

(***************************************************************************)
(* C5                                                                      *)
(***************************************************************************)
\* C5: for every sequence of raw records the client returns, the call
\* yields a table with exactly one row per record, in the same order.
C5_RowCount ==
    (Direct /\ Finished /\ op \in {"compare_materials", "find_stable_materials"} /\ ClientOk)
    => /\ err = "none"
       /\ Len(df.rows) = Len(RawRecords)
       /\ \A i \in 1..Len(RawRecords) : \A k \in DOMAIN RawRecords[i].val :
             (~HasDot(k) /\ k # SPACEGROUP) => SameValue(df.rows[i][k], RawRecords[i].val[k])

(***************************************************************************)
(* C6                                                                      *)
(***************************************************************************)
\* C6: when the query returns no records and the field list is non-empty,
\* the table has zero rows and still carries the requested columns, and
\* the display step of main's search and stable commands succeeds.
C6_EmptyResult ==
    (op \in {"search_materials", "find_stable_materials"} /\ pc # "called"
       /\ responses = <<Ok(<<>>)>> /\ Requested # <<>>)
    => /\ err = "none"
       /\ df.rows = <<>>
       /\ df.columns = Requested

(***************************************************************************)
(* C7                                                                      *)
(***************************************************************************)
\* C7 (as stated): a call with an empty requested field list
\* (properties = []) fails with an InvalidArgument error and returns no table.
C7_EmptyFieldsRejected ==
    (Direct /\ Finished /\ ~properties.none /\ properties.list = <<>> /\ ClientOk)
    => err = "InvalidArgument" /\ pc = "raised"

\* C7 (amended): a call with properties = [] is not rejected: no
\* InvalidArgument error is raised; when the queries are answered the call
\* returns a table, which for compare_materials holds the raw records as
\* they are (their own keys as the columns, one row per record) and for
\* search_materials the first num_results records the client returned.
C7_EmptyFieldsAccepted ==
    (Direct /\ Finished /\ ~properties.none /\ properties.list = <<>>)
    => /\ err # "InvalidArgument"
       /\ ClientOk
          => /\ err = "none"
             /\ pc = "returned"
             /\ LET raw == IF op = "search_materials"
                           THEN Slice(RawRecords, num_results) ELSE RawRecords
                IN /\ Len(df.rows) = Len(raw)
                   /\ Range(df.columns) = UNION {DOMAIN raw[i].val : i \in 1..Len(raw)}
                   /\ \A i \in 1..Len(raw) : \A k \in DOMAIN raw[i].val :
                         SameValue(df.rows[i][k], raw[i].val[k])

\* compare_materials was called with properties = [] on a record whose
\* elasticity is a mapping, and returned it as a row of the table
C7_Witness ==
    /\ Direct /\ pc = "returned" /\ op = "compare_materials"
    /\ properties = Props(<<>>)
    /\ Len(responses) = 2
    /\ BaseIsMapping(RawRecords[1], ELASTICITY_K_VRH)
    /\ df.columns # <<>>
    /\ Len(df.rows) = 2

(***************************************************************************)
(* C8                                                                      *)
(***************************************************************************)
\* C8 (as stated): a failure raised by the query client during
\* search_materials, compare_materials, find_stable_materials or
\* display_material_summary leaves the operation as that same failure.
C8_FailurePropagated ==
    (Direct /\ Finished /\ ClientFails) => err = "RemoteFailure" /\ pc = "raised"

\* C8 (amended): a failure raised by the query client leaves
\* search_materials, compare_materials and find_stable_materials as that
\* same failure, with no table returned; display_material_summary catches
\* it and returns None.
C8_PropagatedExceptSummary ==
    (Direct /\ Finished /\ ClientFails)
    => IF op = "display_material_summary"
       THEN /\ err = "none"
            /\ pc = "returned"
            /\ summary.returned = "None"
            /\ summary.caught = "RemoteFailure"
       ELSE /\ err = "RemoteFailure"
            /\ pc = "raised"
            /\ df = EmptyDataFrame

\* the second query of compare_materials failed after the first returned a
\* record, and the call was left by the failure
C8_Witness ==
    /\ Direct /\ op = "compare_materials" /\ pc = "raised"
    /\ Len(responses) = 2
    /\ responses[1].kind = "ok" /\ responses[1].recs # <<>>
    /\ responses[2].kind = "fail"
    /\ err = "RemoteFailure"

(***************************************************************************)
(* C9                                                                      *)
(***************************************************************************)
\* C9 (as stated): the raw records the client handed over are left
\* unchanged by the call.
C9_RecordsUnchanged ==
    Finished => client_records = Objects(responses)

\* C9 (amended): compare_materials writes each resolved dotted value into
\* the raw record it has fetched, under the dotted field name; this is the only
\* change to a raw record: every other key keeps its value and its place,
\* no key is removed, a record whose base is not a mapping is left as it
\* was, and the other operations leave the raw records unchanged.
C9_OnlyDottedKeysWritten ==
    Finished =>
       /\ Len(client_records) = Len(responses)
       /\ \A i \in 1..Len(responses) :
             /\ Len(client_records[i]) = Len(responses[i].recs)
             /\ \A j \in 1..Len(responses[i].recs) :
                   LET orig == responses[i].recs[j]
                       obj == client_records[i][j]
                       written == {f \in Range(Requested) :
                                      /\ op = "compare_materials"
                                      /\ Fetched(i)
                                      /\ j = 1
                                      /\ HasDot(f)
                                      /\ BaseIsMapping(orig, f)}
                   IN /\ DOMAIN obj.val = (DOMAIN orig.val) \cup written
                      /\ SubSeq(obj.keys, 1, Len(orig.keys)) = orig.keys
                      /\ \A k \in DOMAIN obj.val :
                            obj.val[k] = IF k \in written
                                         THEN DictGet(orig.val[Base(k)], Nested(k))
                                         ELSE orig.val[k]

\* compare_materials returned after adding the key elasticity.K_VRH to the
\* first raw record
C9_Witness ==
    /\ op = "compare_materials" /\ pc = "returned"
    /\ Len(responses) >= 1
    /\ ~HasKey(responses[1].recs[1], ELASTICITY_K_VRH)
    /\ HasKey(client_records[1][1], ELASTICITY_K_VRH)
    /\ client_records[1][1].val[ELASTICITY_K_VRH] = Num(120)

(***************************************************************************)
(* C10                                                                     *)
(***************************************************************************)
\* the value of the highest-precedence source that defines the key
PrecedenceValue(env, cwd, home) ==
    IF env # "unset" THEN env
    ELSE IF DefinesKey(cwd) THEN StripQuotes(cwd)
    ELSE IF DefinesKey(home) THEN StripQuotes(home)
    ELSE "unset"

\* C10: after load_environment the key has the value of the highest-
\* precedence source that defines it (environment, then ./.env, then
\* ~/.env), and the function returns True only if the key is then set.
C10_Precedence ==
    [][LoadEnvironment =>
          /\ environ' = PrecedenceValue(environ, cwd_env, home_env)
          /\ loaded' = "True" => environ' # "unset"]_vars

====
